---- MODULE Spec2Model ----
(***************************************************************************)
(* Model of the Infobae America pipeline:                                  *)
(*   scrap.py            the extractor (fetch, associate, print, save)     *)
(*   scrap_grafico.py    the base analyzer                                 *)
(*   scrap_grafico_1.py  the extended analyzer (sentiment, entities, PDF)  *)
(* The two programs share only the file infobae_noticias.csv.              *)
(***************************************************************************)
EXTENDS Integers, Sequences, FiniteSets, TLC

(* ------------------------------ bounds --------------------------------- *)
MaxTitles == 2
MaxSubtitles == 2
MaxClock == 1
MaxWrites == 2
MaxAnRuns == 1
MaxRows == 3
MaxN == 2

(* ------------------------------ values --------------------------------- *)
\* A text is a sequence of characters.  Cell values of a table are tagged:
\*   str       a Python str holding `text`
\*   nan       pandas' missing value (float NaN / NaT)
\*   datestr   the str strftime("%Y-%m-%d %H:%M:%S") renders for instant t
\*   datetime  a pandas Timestamp of instant t
\*   num       a number t
Str(s) == [kind |-> "str", text |-> s, t |-> 0]
NaN == [kind |-> "nan", text |-> <<>>, t |-> 0]
DateStr(n) == [kind |-> "datestr", text |-> <<>>, t |-> n]
Timestamp(n) == [kind |-> "datetime", text |-> <<>>, t |-> n]
Num(n) == [kind |-> "num", text |-> <<>>, t |-> n]

IsSpace(c) == c = " "

RECURSIVE LStrip(_)
LStrip(s) == IF s = <<>> THEN s ELSE IF IsSpace(Head(s)) THEN LStrip(Tail(s)) ELSE s

RECURSIVE RStrip(_)
RStrip(s) ==
  IF s = <<>> THEN s
  ELSE IF IsSpace(s[Len(s)]) THEN RStrip(SubSeq(s, 1, Len(s) - 1)) ELSE s

\* str.strip(): drops leading and trailing whitespace, keeps interior one
Strip(s) == RStrip(LStrip(s))

\* element texts a page may carry: whitespace only (empty once trimmed),
\* padded, and one with interior whitespace and punctuation
Texts ==
  { <<" ">>, <<" ", "A", " ">>, <<"B", " ", "b", "!">> }

SeqsUpTo(S, n) == UNION { [1..k -> S] : k \in 0..n }

Statuses == {200, 404}

(* ------------------------------ tables --------------------------------- *)
\* A DataFrame (or None): column order plus one record per row.
None == [none |-> TRUE, cols |-> <<>>, rows |-> <<>>]
DataFrame(cols, rows) == [none |-> FALSE, cols |-> cols, rows |-> rows]

RecordCols == <<"titulo", "subtitulo", "fecha_extraccion">>

\* df.empty
Empty(d) == d.rows = <<>>

\* The CSV file: missing, garbled (bytes read_csv cannot tokenize), or a
\* header line plus rows of cells; writes counts the times it was written.
NoFile == [state |-> "missing", cols |-> <<>>, rows |-> <<>>, writes |-> 0]
Garbled == [state |-> "garbled", cols |-> <<>>, rows |-> <<>>, writes |-> 0]
File(cols, rows, w) == [state |-> "ok", cols |-> cols, rows |-> rows, writes |-> w]

\* what to_csv prints for one value: a str as is, a missing value as the
\* empty field
CellOf(v) == IF v.kind = "nan" THEN Str(<<>>) ELSE v

\* the rows of a table laid out under its header
CsvRows(d) ==
  [i \in 1..Len(d.rows) |-> [j \in 1..Len(d.cols) |-> CellOf(d.rows[i][d.cols[j]])]]

to_csv_append(old, d) ==
  IF old.state = "ok"
  THEN File(old.cols, old.rows \o CsvRows(d), old.writes + 1)
  ELSE File(d.cols, CsvRows(d), old.writes + 1)

\* df.to_csv(filename, index=False): mode "w", header row, no index column
to_csv(old, d) == File(d.cols, CsvRows(d), old.writes + 1)

(* ----------------------------- extractor ------------------------------- *)
VARIABLES clock, csv, ex_pc, page, news_df, ex_out, handle,
          an_pc, an_variant, an_runs, nlp, df, text, calls, graficos_generados,
          graficos_dir, files, pdf, an_out, an_plan, top_n, word_counts

ex_vars == <<ex_pc, page, news_df, ex_out, handle>>
an_vars == <<an_pc, an_variant, an_runs, nlp, df, text, calls, graficos_generados,
             graficos_dir, files, pdf, an_out, an_plan, top_n, word_counts>>
vars == <<clock, csv, ex_vars, an_vars>>

\* the response of requests.get as scrape_infobae_america saw it
NoPage == [outcome |-> "none", status |-> 0, titles |-> <<>>, subtitles |-> <<>>]
Page(o, s, ts, ss) == [outcome |-> o, status |-> s, titles |-> ts, subtitles |-> ss]

KeepAllTitles(titles) == titles

\* the headline elements whose trimmed text is not empty (line 89)
KeptTitles(titles) == SelectSeq(titles, LAMBDA x : Strip(x) # <<>>)

\* first loop (lines 88-94): one record per kept title, subtitle empty
TitleRecords(titles, now) ==
  LET kept == KeptTitles(titles)
  IN [i \in 1..Len(kept) |->
        [titulo |-> Str(Strip(kept[i])), subtitulo |-> Str(<<>>),
         fecha_extraccion |-> DateStr(now)]]

AssociateUntrimmed(news_data, subtitles) ==
  [i \in 1..Len(news_data) |->
     IF i <= Len(subtitles)
     THEN [news_data[i] EXCEPT !.subtitulo = Str(subtitles[i])]
     ELSE news_data[i]]

\* second loop (lines 98-100): subtitle i goes to record i while in range
Associate(news_data, subtitles) ==
  [i \in 1..Len(news_data) |->
     IF i <= Len(subtitles)
     THEN [news_data[i] EXCEPT !.subtitulo = Str(Strip(subtitles[i]))]
     ELSE news_data[i]]

\* pd.DataFrame(news_data): columns are the keys of the dicts, none if empty
FrameOf(news_data) ==
  DataFrame(IF news_data = <<>> THEN <<>> ELSE RecordCols, news_data)

ScrapeIgnoringStatus(p, now) ==
  IF p.outcome = "ok"
  THEN FrameOf(Associate(TitleRecords(p.titles, now), p.subtitles))
  ELSE None

\* the value scrape_infobae_america returns
ScrapeResult(p, now) ==
  IF p.outcome = "ok" /\ p.status = 200
  THEN FrameOf(Associate(TitleRecords(p.titles, now), p.subtitles))
  ELSE None

\* what scrape_infobae_america prints
ScrapeOutput(p) ==
  IF p.outcome = "fetch_error" \/ p.outcome = "parse_error" THEN <<"error_scraping">>
  ELSE IF p.status # 200 THEN <<"error_codigo">>
  ELSE <<>>

HasFrame(d) == ~d.none

\* line 119 / 132: df is not None and not df.empty
HasData(d) == ~d.none /\ ~Empty(d)

(* ------------------------------ analyzer ------------------------------- *)
\* what read_csv makes of one cell: the empty field is a missing value
\* (default na_filter), any other text is kept
ParseCell(c) == IF c.kind = "str" /\ c.text = <<>> THEN NaN ELSE c

\* pd.read_csv('infobae_noticias.csv') on a readable file
read_csv(f) ==
  DataFrame(f.cols,
            [i \in 1..Len(f.rows) |->
               [c \in {f.cols[j] : j \in 1..Len(f.cols)} |->
                  ParseCell(f.rows[i][CHOOSE j \in 1..Len(f.cols) : f.cols[j] = c])]])

HasColumn(d, c) == \E j \in 1..Len(d.cols) : d.cols[j] = c

\* df[name] = values: a new column goes last, an existing one is replaced
AddColumn(d, name, vals) ==
  DataFrame(IF HasColumn(d, name) THEN d.cols ELSE Append(d.cols, name),
            [i \in 1..Len(d.rows) |->
               [c \in DOMAIN d.rows[i] \cup {name} |->
                  IF c = name THEN vals[i] ELSE d.rows[i][c]]])

\* str.lower() on the characters in use
Lower(c) ==
  IF c = "A" THEN "a" ELSE IF c = "B" THEN "b" ELSE IF c = "C" THEN "c" ELSE c

\* \w or \s: everything in use but the punctuation mark
IsWordOrSpace(c) == c # "!"

\* re.sub(r'[^\w\s]', '', x.lower())
Limpio(s) == SelectSeq([i \in 1..Len(s) |-> Lower(s[i])], IsWordOrSpace)

RECURSIVE Join(_)
\* ' '.join(texts)
Join(ts) ==
  IF ts = <<>> THEN <<>>
  ELSE IF Len(ts) = 1 THEN ts[1]
  ELSE ts[1] \o <<" ">> \o Join(Tail(ts))

\* pd.to_datetime on one value: a rendered date parses, a missing value
\* stays missing, any other text raises
ParsesAsDate(v) == v.kind \in {"datestr", "datetime", "nan"}
ToDatetime(v) == IF v.kind = "datestr" THEN Timestamp(v.t) ELSE v

\* the load raises: no file, unreadable file, no titulo column, a titulo
\* that is not a str (x.lower() on NaN), or a date that does not parse
LoadRaises(f) ==
  \/ f.state # "ok"
  \/ LET d == read_csv(f)
     IN \/ ~HasColumn(d, "titulo")
        \/ \E i \in 1..Len(d.rows) : d.rows[i]["titulo"].kind # "str"
        \/ /\ HasColumn(d, "fecha_extraccion")
           /\ \E i \in 1..Len(d.rows) : ~ParsesAsDate(d.rows[i]["fecha_extraccion"])

\* the table after the preprocessing of lines 38-43 (base) / 53-59 (extended)
LoadedTable(f) ==
  LET d == read_csv(f)
      d1 == AddColumn(d, "titulo_limpio",
                      [i \in 1..Len(d.rows) |-> Str(Limpio(d.rows[i]["titulo"].text))])
  IN IF HasColumn(d1, "fecha_extraccion")
     THEN AddColumn(d1, "fecha_extraccion",
                    [i \in 1..Len(d.rows) |-> ToDatetime(d.rows[i]["fecha_extraccion"])])
     ELSE d1

\* ' '.join(df['titulo_limpio'])
Corpus(d) == Join([i \in 1..Len(d.rows) |-> d.rows[i]["titulo_limpio"].text])

(* ------------------------------ top words ------------------------------ *)
\* \w: a character of a word
IsWordChar(c) == c \notin {" ", "!"}

\* re.findall(r'\b\w+\b', s): the maximal runs of word characters, in
\* order; a run starts at a word character that follows none and ends at the
\* last word character before the next other one
FindWords(s) ==
  LET starts == SelectSeq([i \in 1..Len(s) |-> i],
                          LAMBDA i : IsWordChar(s[i]) /\ (i = 1 \/ ~IsWordChar(s[i - 1])))
      end(i) == CHOOSE j \in i..Len(s) :
                  /\ \A k \in i..j : IsWordChar(s[k])
                  /\ (j = Len(s) \/ ~IsWordChar(s[j + 1]))
  IN [n \in 1..Len(starts) |-> SubSeq(s, starts[n], end(starts[n]))]

\* the stopword set of the base variant (scrap_grafico.py line 112)
BaseStopwords ==
  { <<"d", "e">>, <<"l", "a">>, <<"e", "l">>, <<"e", "n">>, <<"y">>, <<"a">>,
    <<"l", "o", "s">>, <<"l", "a", "s">>, <<"d", "e", "l">>, <<"q", "u", "e">>,
    <<"c", "o", "n">> }

\* the stopword set of the extended variant (scrap_grafico_1.py lines 128-131)
ExtStopwords ==
  BaseStopwords \cup { <<"p", "o", "r">>, <<"p", "a", "r", "a">> }

Stopwords(variant) == IF variant = "base" THEN BaseStopwords ELSE ExtStopwords

EligibleAnyLength(variant, w) == w \notin Stopwords(variant)

\* the filter of the comprehension: word not in stopwords and len(word) > 3
Eligible(variant, w) == w \notin Stopwords(variant) /\ Len(w) > 3

\* words = [word for word in re.findall(...) if ...]
Words(variant, s) == SelectSeq(FindWords(s), LAMBDA w : Eligible(variant, w))

\* the keys of Counter(words): the distinct words, in order of first occurrence
Keys(ws) ==
  LET firsts == SelectSeq([i \in 1..Len(ws) |-> i],
                          LAMBDA i : \A j \in 1..(i - 1) : ws[j] # ws[i])
  IN [n \in 1..Len(firsts) |-> ws[firsts[n]]]

Count(ws, w) == Cardinality({ i \in 1..Len(ws) : ws[i] = w })

\* Counter(words).items(): (word, count) pairs in insertion order
Counter(ws) == [i \in 1..Len(Keys(ws)) |-> <<Keys(ws)[i], Count(ws, Keys(ws)[i])>>]

FirstN(items, n) == SubSeq(items, 1, IF n < Len(items) THEN n ELSE Len(items))

\* most_common(n): the n pairs of highest count, highest first; pairs of
\* equal count stay in insertion order
MostCommon(items, n) ==
  LET rank(i) == 1 + Cardinality({ j \in 1..Len(items) :
                                     \/ items[j][2] > items[i][2]
                                     \/ (items[j][2] = items[i][2] /\ j < i) })
      sorted == [r \in 1..Len(items) |-> items[CHOOSE i \in 1..Len(items) : rank(i) = r]]
  IN SubSeq(sorted, 1, IF n < Len(items) THEN n ELSE Len(items))

\* word_counts of top_palabras for a corpus and n
TopPalabras(variant, s, n) == MostCommon(Counter(Words(variant, s)), n)

\* n=15: the default of the parameter and the value __main__ passes
DefaultN == 15

\* artifact files graficos/<kind>_<YYYYMMDD_HHMMSS>.png; NoPath is None
ArtifactPath(kind, n) == [kind |-> kind, t |-> n]
NoPath == [kind |-> "none", t |-> 0]

\* what a function hands back: one value, or a tuple of values
Scalar(p) == [shape |-> "scalar", items |-> <<p>>]
Tuple(p, q) == [shape |-> "tuple", items |-> <<p, q>>]

\* base variant: the functions have no return statement
BaseReturn(p, fail) == Scalar(NoPath)

ExtReturnsPathAnyway(p, fail) == Scalar(p)

\* extended variant: return filename / return None in the handler
ExtReturn(p, fail) == IF fail THEN Scalar(NoPath) ELSE Scalar(p)

VizReturn(variant, p, fail) ==
  IF variant = "base" THEN BaseReturn(p, fail) ELSE ExtReturn(p, fail)

\* one call of a chart function that saves a single figure
VizCall(fn, variant, kind, fail, now) ==
  [fn |-> fn, failed |-> fail, skipped |-> FALSE,
   wrote |-> IF fail THEN {} ELSE {ArtifactPath(kind, now)},
   ret |-> VizReturn(variant, ArtifactPath(kind, now), fail)]

\* the report file reporte_analisis.pdf
NoPdf == [state |-> "missing", t |-> 0, count |-> 0, pages |-> <<>>]
Pdf(now, count, pages) == [state |-> "written", t |-> now, count |-> count, pages |-> pages]

\* what an earlier run of the extended analyzer may have left behind
PriorArtifacts ==
  { ArtifactPath(k, 0) : k \in {"wordcloud", "longitud_titulos", "top_palabras", "sentimiento"} }
PriorPdf ==
  Pdf(0, 1, <<ArtifactPath("wordcloud", 0), ArtifactPath("longitud_titulos", 0),
              ArtifactPath("top_palabras", 0), ArtifactPath("sentimiento", 0)>>)

\* CSV files found on disk before any run of the model
NoTituloFile == File(<<"subtitulo">>, << <<Str(<<"b">>)>> >>, 0)
NoFechaFile ==
  File(<<"titulo", "subtitulo">>,
       << <<Str(<<"A">>), Str(<<>>)>>, <<Str(<<"B", " ", "b", "!">>), Str(<<"A">>)>> >>, 0)
PriorFile ==
  File(RecordCols,
       << <<Str(<<"A">>), Str(<<"A">>), DateStr(0)>>,
          <<Str(<<"B", " ", "b", "!">>), Str(<<>>), DateStr(0)>> >>, 0)
InitialFiles == {NoFile, Garbled, NoTituloFile, NoFechaFile, PriorFile}

\* the file object to_csv writes through: closed, or open on a file whose
\* contents were old when the open truncated it
NoHandle == [open |-> FALSE, old |-> NoFile]
Handle(f) == [open |-> TRUE, old |-> f]

\* the order in which __main__ calls the chart functions
MainOrder(variant) ==
  IF variant = "base"
  THEN <<"wordcloud", "longitud", "top", "temporal">>
  ELSE <<"wordcloud", "longitud", "top", "sentimiento", "entidades">>

\* what the module level prints before the load
SetupOutput(variant, model_found) ==
  IF variant = "base" THEN <<>>
  ELSE (IF model_found THEN <<>> ELSE <<"warn_spacy">>) \o <<"banner">>

\* no extractor is running
ExtractorIdle ==
  /\ ex_pc = "idle"
  /\ page = NoPage
  /\ news_df = None
  /\ ex_out = <<>>
  /\ handle = NoHandle

Init ==
  /\ clock = 0
  /\ csv \in InitialFiles
  /\ ExtractorIdle
  /\ an_plan = <<>>
  /\ top_n = DefaultN
  /\ word_counts = <<>>
  /\ an_pc = "idle"
  /\ an_variant = "none"
  /\ an_runs = 0
  /\ nlp = FALSE
  /\ df = None
  /\ text = <<>>
  /\ calls = <<>>
  /\ graficos_generados = <<>>
  /\ \E left \in BOOLEAN :
       /\ graficos_dir = left
       /\ files = IF left THEN PriorArtifacts ELSE {}
       /\ pdf = IF left THEN PriorPdf ELSE NoPdf
  /\ an_out = <<>>

\* __main__ lines 145-148: banner, then the whole of scrape_infobae_america
scrape_infobae_america ==
  /\ ex_pc \in {"idle", "done"}
  /\ csv.writes < MaxWrites
  /\ \E o \in {"ok", "fetch_error", "parse_error"}, s \in Statuses,
        ts \in SeqsUpTo(Texts, MaxTitles), ss \in SeqsUpTo(Texts, MaxSubtitles) :
       \* an exception leaves no response body to look at
       /\ (o # "ok" => s = 200 /\ ts = <<>> /\ ss = <<>>)
       /\ LET p == Page(o, IF o = "fetch_error" THEN 0 ELSE s, ts, ss)
          IN /\ page' = p
             /\ news_df' = ScrapeResult(p, clock)
             /\ ex_out' = <<"iniciando">> \o ScrapeOutput(p)
  /\ ex_pc' = "scraped"
  /\ UNCHANGED <<clock, csv, handle, an_vars>>

\* __main__ line 151
print_news ==
  /\ ex_pc = "scraped"
  /\ ex_out' = Append(ex_out, IF HasData(news_df) THEN "noticias" ELSE "no_noticias")
  /\ page' = NoPage
  /\ ex_pc' = "printed"
  /\ UNCHANGED <<clock, csv, news_df, handle, an_vars>>

SaveDataFirst == "scraped"

\* __main__ calls save_data (line 154) after print_news (line 151)
SaveDataAt == "printed"

\* __main__ lines 154-156
save_data ==
  /\ ex_pc = SaveDataAt
  /\ IF HasData(news_df)
     THEN /\ csv' = to_csv(csv, news_df)
          /\ ex_out' = ex_out \o <<"guardado", "completado">>
     ELSE /\ csv' = csv
          /\ ex_out' = ex_out \o <<"no_hay_datos", "completado">>
  /\ ex_pc' = "done"
  /\ UNCHANGED <<clock, page, news_df, handle, an_vars>>

\* save_data as a concurrent reader of the file sees it, first part: to_csv
\* opens the file in mode "w", which truncates it
save_data_open ==
  /\ ex_pc = SaveDataAt
  /\ IF HasData(news_df)
     THEN /\ csv' = File(<<>>, <<>>, csv.writes)
          /\ handle' = Handle(csv)
          /\ ex_out' = ex_out
          /\ ex_pc' = "writing"
     ELSE /\ csv' = csv
          /\ handle' = handle
          /\ ex_out' = ex_out \o <<"no_hay_datos", "completado">>
          /\ ex_pc' = "done"
  /\ UNCHANGED <<clock, page, news_df, an_vars>>

\* second part: the header and the rows reach the file one buffer at a time,
\* k rows so far; the flush of the last row is followed by the close
save_data_write ==
  /\ ex_pc = "writing"
  /\ \E k \in (Len(csv.rows) + 1)..Len(news_df.rows) :
       IF k = Len(news_df.rows)
       THEN /\ csv' = to_csv(handle.old, news_df)
            /\ handle' = NoHandle
            /\ ex_out' = ex_out \o <<"guardado", "completado">>
            /\ ex_pc' = "done"
       ELSE /\ csv' = File(news_df.cols, SubSeq(CsvRows(news_df), 1, k), csv.writes)
            /\ UNCHANGED <<handle, ex_out, ex_pc>>
  /\ UNCHANGED <<clock, page, news_df, an_vars>>

\* the wall clock, at the one-second resolution of the timestamps
Tick ==
  /\ clock < MaxClock
  /\ clock' = clock + 1
  /\ UNCHANGED <<csv, ex_vars, an_vars>>

\* module level of either analyzer: output folder, plot style and, in the
\* extended variant, the spaCy model (bare except) and the opening banner
analyzer_setup ==
  /\ an_pc \in {"idle", "done", "aborted"}
  /\ an_runs < MaxAnRuns
  /\ \E v \in {"base", "ext"}, model_found \in BOOLEAN :
       /\ an_variant' = v
       /\ nlp' = (v = "ext" /\ model_found)
       /\ an_out' = SetupOutput(v, model_found)
       /\ an_plan' = MainOrder(v)
  /\ an_runs' = an_runs + 1
  /\ word_counts' = <<>>
  /\ graficos_dir' = TRUE
  /\ df' = None
  /\ text' = <<>>
  /\ calls' = <<>>
  /\ graficos_generados' = <<>>
  /\ an_pc' = "load"
  /\ UNCHANGED <<clock, csv, ex_vars, files, pdf, top_n>>

LoadFailureContinues == "wordcloud"

\* except Exception: print the error, then exit()
LoadFailurePc == "aborted"

SavedBack(f, d) == to_csv(f, d)

\* the file after the load: read_csv opens it for reading, and no statement
\* of either analyzer writes the table back
FileAfterLoad(f, d) == f

\* the load: module level try of the base variant (lines 32-47, then the
\* banner of __main__), cargar_datos and line 293 of the extended one
cargar_datos ==
  /\ an_pc = "load"
  /\ IF LoadRaises(csv)
     THEN /\ an_out' = Append(an_out, "error_cargar")
          /\ an_pc' = LoadFailurePc
          /\ UNCHANGED <<csv, df, text>>
     ELSE /\ \E loaded \in {LoadedTable(csv)} :
               /\ df' = loaded
               /\ csv' = FileAfterLoad(csv, loaded)
               /\ text' = Corpus(loaded)
          /\ an_out' = an_out \o <<"datos_cargados">>
                         \o (IF an_variant = "base" THEN <<"banner">> ELSE <<>>)
          /\ an_pc' = an_plan[1]
  /\ UNCHANGED <<clock, ex_vars, an_variant, an_runs, nlp, calls,
                 graficos_generados, graficos_dir, files, pdf, an_plan, top_n,
                 word_counts>>

\* what a chart function prints: the base variant reports success and
\* failure, the extended one only failure
VizOutput(fn, variant, fail) ==
  IF fail THEN <<"error_" \o fn>>
  ELSE IF variant = "base" THEN <<"ok_" \o fn>> ELSE <<>>

AbortOnFailure(fail, next) == IF fail THEN "aborted" ELSE next

\* where __main__ goes after a chart function: on, whatever happened in it
AfterViz(fail, next) == next

\* the statement of __main__ that follows the call at step: the next call,
\* or what comes after the last one
Following(plan, step, variant) ==
  LET i == CHOOSE j \in 1..Len(plan) : plan[j] = step
  IN IF i < Len(plan) THEN plan[i + 1]
     ELSE IF variant = "base" THEN "done" ELSE "reporte"

\* base variant: the closing banner follows the last call
Closing(plan, step, variant) ==
  IF variant = "base" /\ step = plan[Len(plan)] THEN <<"completado">> ELSE <<>>

\* one chart function called from __main__; fail is an exception raised
\* inside its try block before the figure is saved
VizStep(step, fn, kind, fail) ==
  LET c == VizCall(fn, an_variant, kind, fail, clock)
  IN /\ calls' = Append(calls, c)
     /\ files' = files \cup c.wrote
     /\ graficos_generados' =
          IF an_variant = "ext" THEN Append(graficos_generados, c.ret.items[1])
          ELSE graficos_generados
     /\ an_out' = an_out \o VizOutput(fn, an_variant, fail)
                    \o Closing(an_plan, step, an_variant)
     /\ an_pc' = AfterViz(fail, Following(an_plan, step, an_variant))

generar_wordcloud ==
  /\ an_pc = "wordcloud"
  /\ \E fail \in BOOLEAN : VizStep("wordcloud", "generar_wordcloud", "wordcloud", fail)
  /\ UNCHANGED <<clock, csv, ex_vars, an_variant, an_runs, nlp, df, text,
                 graficos_dir, pdf, an_plan, top_n, word_counts>>

LengthsUnlessCharted(d) ==
  [i \in 1..Len(d.rows) |->
     IF HasColumn(d, "sentimiento") \/ HasColumn(d, "hora") THEN Num(0)
     ELSE Num(Len(d.rows[i]["titulo"].text))]

\* df['titulo'].apply(len)
Lengths(d) == [i \in 1..Len(d.rows) |-> Num(Len(d.rows[i]["titulo"].text))]

\* grafico_longitud_titulos (base) / analizar_longitud_titulos (extended)
longitud_titulos ==
  /\ an_pc = "longitud"
  /\ df' = AddColumn(df, "longitud", Lengths(df))
  /\ \E fail \in BOOLEAN : VizStep("longitud", "longitud_titulos", "longitud_titulos", fail)
  /\ UNCHANGED <<clock, csv, ex_vars, an_variant, an_runs, nlp, text,
                 graficos_dir, pdf, an_plan, top_n, word_counts>>

\* the corpus is the global text in the base variant (line 113) and the
\* titles joined anew in the extended one (line 134)
top_palabras ==
  /\ an_pc = "top"
  /\ \E corpus \in {IF an_variant = "base" THEN text ELSE Corpus(df)} :
       word_counts' = TopPalabras(an_variant, corpus, top_n)
  /\ \E fail \in BOOLEAN : VizStep("top", "top_palabras", "top_palabras", fail)
  /\ UNCHANGED <<clock, csv, ex_vars, an_variant, an_runs, nlp, df, text,
                 graficos_dir, pdf, an_plan, top_n>>

\* .dt.hour and .dt.date of the timestamps; instants are seconds
Hours(d) ==
  [i \in 1..Len(d.rows) |->
     LET v == d.rows[i]["fecha_extraccion"]
     IN IF v.kind = "datetime" THEN Num((v.t \div 3600) % 24) ELSE NaN]
Days(d) ==
  [i \in 1..Len(d.rows) |->
     LET v == d.rows[i]["fecha_extraccion"]
     IN IF v.kind = "datetime" THEN Num(v.t \div 86400) ELSE NaN]

\* TextBlob(x).sentiment.polarity: the scorer is a library, every title is
\* given the neutral score
Polarities(d) == [i \in 1..Len(d.rows) |-> Num(0)]

TemporalNeverSkips(d) == FALSE

\* line 141: no timestamp column, nothing to chart
TemporalSkips(d) == ~HasColumn(d, "fecha_extraccion")

\* base variant: analisis_temporal
analisis_temporal ==
  /\ an_pc = "temporal"
  /\ IF TemporalSkips(df)
     THEN /\ calls' = Append(calls, [fn |-> "analisis_temporal", failed |-> FALSE,
                                     skipped |-> TRUE, wrote |-> {},
                                     ret |-> Scalar(NoPath)])
          /\ an_out' = an_out \o <<"warn_no_temporal">>
                         \o Closing(an_plan, "temporal", an_variant)
          /\ an_pc' = Following(an_plan, "temporal", an_variant)
          /\ UNCHANGED <<df, files, graficos_generados>>
     ELSE \E raised \in BOOLEAN :
            \* line 148 is inside the try: a missing column is a KeyError there
            LET has == HasColumn(df, "fecha_extraccion")
                fail == raised \/ ~has
                c == VizCall("analisis_temporal", an_variant, "distribucion_horas",
                             fail, clock)
            IN /\ df' = IF has
                        THEN AddColumn(AddColumn(df, "hora", Hours(df)), "dia", Days(df))
                        ELSE df
               /\ calls' = Append(calls, c)
               /\ files' = files \cup c.wrote
               /\ an_out' = an_out \o VizOutput("analisis_temporal", an_variant, fail)
                              \o Closing(an_plan, "temporal", an_variant)
               /\ an_pc' = AfterViz(fail, Following(an_plan, "temporal", an_variant))
          /\ UNCHANGED graficos_generados
  /\ UNCHANGED <<clock, csv, ex_vars, an_variant, an_runs, nlp, text,
                 graficos_dir, pdf, an_plan, top_n, word_counts>>

\* extended variant
analizar_sentimiento ==
  /\ an_pc = "sentimiento"
  /\ df' = AddColumn(df, "sentimiento", Polarities(df))
  /\ \E fail \in BOOLEAN :
       VizStep("sentimiento", "analizar_sentimiento", "sentimiento", fail)
  /\ UNCHANGED <<clock, csv, ex_vars, an_variant, an_runs, nlp, text,
                 graficos_dir, pdf, an_plan, top_n, word_counts>>

\* extended variant: extraer_entidades and lines 306-310 of __main__.
\* hp / hl: the recognizer found persons / places; stage: where an exception
\* is raised, "ner" before any figure, "lugares" after the persons figure
extraer_entidades ==
  /\ an_pc = "entidades"
  /\ \E hp \in BOOLEAN, hl \in BOOLEAN, stage \in {"none", "ner", "lugares"} :
       LET at == IF ~nlp THEN "ner" ELSE stage
           p == IF hp /\ at # "ner" THEN ArtifactPath("personas", clock) ELSE NoPath
           l == IF hl /\ at = "none" THEN ArtifactPath("lugares", clock) ELSE NoPath
           ret == IF at = "none" THEN Tuple(p, l) ELSE Tuple(NoPath, NoPath)
       IN /\ (stage = "lugares" => hl)
          /\ calls' = Append(calls, [fn |-> "extraer_entidades", failed |-> at # "none",
                                     skipped |-> FALSE, wrote |-> {p, l} \ {NoPath},
                                     ret |-> ret])
          /\ files' = files \cup ({p, l} \ {NoPath})
          /\ graficos_generados' =
               graficos_generados \o SelectSeq(ret.items, LAMBDA x : x # NoPath)
          /\ an_out' = an_out \o (IF at # "none" THEN <<"error_entidades">> ELSE <<>>)
          /\ an_pc' = AfterViz(at # "none", Following(an_plan, "entidades", an_variant))
  /\ UNCHANGED <<clock, csv, ex_vars, an_variant, an_runs, nlp, df, text,
                 graficos_dir, pdf, an_plan, top_n, word_counts>>

PdfAppended(old, new) ==
  IF old.state = "written" THEN Pdf(new.t, new.count, old.pages \o new.pages) ELSE new

\* pdf.output("reporte_analisis.pdf"): the document replaces the file
PdfOutput(old, new) == new

\* extended variant: lines 313-322, the None filter, generar_reporte and the
\* closing banner
generar_reporte ==
  /\ an_pc = "reporte"
  /\ LET graficos == SelectSeq(graficos_generados, LAMBDA g : g # NoPath)
     IN /\ graficos_generados' = graficos
        /\ \E fail \in BOOLEAN :
             IF fail
             THEN /\ pdf' = pdf
                  /\ an_out' = an_out \o <<"error_pdf", "completado", "reporte_anunciado">>
             ELSE /\ pdf' = PdfOutput(pdf, Pdf(clock, Len(df.rows),
                                               SelectSeq(graficos, LAMBDA g : g \in files)))
                  /\ an_out' = an_out \o <<"reporte_generado", "completado",
                                           "reporte_anunciado">>
  /\ an_pc' = "done"
  /\ UNCHANGED <<clock, csv, ex_vars, an_variant, an_runs, nlp, df, text, calls,
                 graficos_dir, files, an_plan, top_n, word_counts>>

NextExtractor == scrape_infobae_america \/ print_news \/ save_data

NextAnalyzer ==
  \/ analyzer_setup
  \/ cargar_datos
  \/ generar_wordcloud
  \/ longitud_titulos
  \/ top_palabras
  \/ analisis_temporal
  \/ analizar_sentimiento
  \/ extraer_entidades
  \/ generar_reporte
  \/ Tick

\* the extractor alone, run after run, in a folder no analyzer has touched
InitExtractor == Init /\ ~graficos_dir
SpecExtractor == InitExtractor /\ [][NextExtractor]_vars

\* an analyzer alone, on whatever file it finds
SpecAnalyzer == Init /\ [][NextAnalyzer]_vars

\* the pipeline: extractor runs, then an analyzer run on the file they left
Next ==
  \/ (an_pc = "idle" /\ NextExtractor)
  \/ (ex_pc \in {"idle", "done"} /\ NextAnalyzer)

Spec == Init /\ [][Next]_vars

\* the state right after the module-level setup of a run of variant v that
\* calls the chart functions in the order plan and top_palabras with n
Started(v, model_found, plan, n) ==
  /\ clock = 0
  /\ ExtractorIdle
  /\ an_pc = "load"
  /\ an_variant = v
  /\ an_runs = 1
  /\ nlp = (v = "ext" /\ model_found)
  /\ df = None
  /\ text = <<>>
  /\ calls = <<>>
  /\ graficos_generados = <<>>
  /\ graficos_dir = TRUE
  /\ files = {}
  /\ pdf = NoPdf
  /\ an_out = SetupOutput(v, model_found)
  /\ an_plan = plan
  /\ top_n = n
  /\ word_counts = <<>>

\* titles for the word counts: a stopword, a short word, a word only the
\* extended variant stops, two ordinary words, and a title of two words with
\* a capital and punctuation
Titulares ==
  { <<"d", "e">>, <<"s", "o", "l">>, <<"p", "a", "r", "a">>, <<"c", "a", "s", "a">>,
    <<"g", "a", "t", "o">>, <<"C", "a", "s", "a", "!", " ", "d", "e">> }

\* CSV files holding a titulo column of such titles
WordFiles ==
  { File(<<"titulo">>, [i \in 1..Len(ts) |-> <<Str(ts[i])>>], 0) :
      ts \in SeqsUpTo(Titulares, MaxRows) }

\* top_palabras(df, n) for every table of such titles and every n, reached
\* through the load and the two calls that precede it
InitTopPalabras ==
  /\ csv \in WordFiles
  /\ \E v \in {"base", "ext"}, n \in 0..MaxN : Started(v, TRUE, MainOrder(v), n)

NextTopPalabras == cargar_datos \/ generar_wordcloud \/ longitud_titulos \/ top_palabras

SpecTopPalabras == InitTopPalabras /\ [][NextTopPalabras]_vars

\* every order in which the calls of __main__ can be arranged
Orders(v) ==
  LET main == MainOrder(v)
  IN { p \in [1..Len(main) -> { main[i] : i \in 1..Len(main) }] :
         \A i \in 1..Len(main), j \in 1..Len(main) : i # j => p[i] # p[j] }

\* a file of two dated headlines with countable words
HeadlineFile ==
  File(<<"titulo", "fecha_extraccion">>,
       << <<Str(<<"c", "a", "s", "a", " ", "g", "a", "t", "o">>), DateStr(0)>>,
          <<Str(<<"C", "a", "s", "a", "!">>), DateStr(3600)>> >>, 0)

\* a run of either variant with the calls of its chart functions rearranged
InitAnyOrder ==
  /\ csv \in InitialFiles \cup {HeadlineFile}
  /\ \E v \in {"base", "ext"}, model_found \in BOOLEAN :
       /\ (v = "base" => ~model_found)
       /\ \E plan \in Orders(v) : Started(v, model_found, plan, DefaultN)

NextAnyOrder ==
  \/ cargar_datos
  \/ generar_wordcloud
  \/ longitud_titulos
  \/ top_palabras
  \/ analisis_temporal
  \/ analizar_sentimiento
  \/ extraer_entidades
  \/ generar_reporte

SpecAnyOrder == InitAnyOrder /\ [][NextAnyOrder]_vars

\* an extractor and an analyzer running at the same time on the same file,
\* up to the analyzer's load
InitConcurrent == Init /\ ~graficos_dir

NextConcurrent ==
  \/ scrape_infobae_america
  \/ print_news
  \/ save_data_open
  \/ save_data_write
  \/ analyzer_setup
  \/ cargar_datos

SpecConcurrent == InitConcurrent /\ [][NextConcurrent]_vars

(* ------------------------- properties: extractor ----------------------- *)
\* the scrape of the current run got a 200 response and parsed it
ScrapedOk == ex_pc = "scraped" /\ page.outcome = "ok" /\ page.status = 200

\* positions of the headline elements whose trimmed text is not empty
NonEmptyTitles(ts) == { j \in 1..Len(ts) : Strip(ts[j]) # <<>> }

\* C1: the table has exactly one row per headline with non-empty trimmed
\* text, each row's title is that trimmed text, and the rows follow the order
\* of the headlines in the markup.
C1_OneRowPerNonEmptyTitle ==
  ScrapedOk =>
    LET ts == page.titles
        n == Len(news_df.rows)
    IN /\ ~news_df.none
       /\ n = Cardinality(NonEmptyTitles(ts))
       /\ \E f \in [1..n -> 1..Len(ts)] :
            /\ \A i \in 1..n, k \in 1..n : i < k => f[i] < f[k]
            /\ { f[i] : i \in 1..n } = NonEmptyTitles(ts)
            /\ \A i \in 1..n :
                 /\ news_df.rows[i].titulo = Str(Strip(ts[f[i]]))
                 /\ news_df.rows[i].titulo.text # <<>>

\* a whitespace-only headline was dropped and a padded one kept, trimmed
C1_Witness ==
  /\ ScrapedOk
  /\ Len(page.titles) = 2
  /\ page.titles[1] = <<" ">>
  /\ page.titles[2] = <<" ", "A", " ">>
  /\ Len(news_df.rows) = 1
  /\ news_df.rows[1].titulo = Str(<<"A">>)

\* C2 as stated: row i carries the text of subtitle element i as it stands in
\* the markup when i is within the subtitles, the empty text otherwise.
C2_SubtitleIsElementText ==
  ScrapedOk =>
    \A i \in 1..Len(news_df.rows) :
      news_df.rows[i].subtitulo =
        IF i <= Len(page.subtitles) THEN Str(page.subtitles[i]) ELSE Str(<<>>)

\* C2 amended: row i (counted over the kept rows) carries the trimmed text of
\* subtitle element i when i is within the subtitles, the empty text
\* otherwise; subtitles beyond the last row change nothing.
C2_SubtitleIsTrimmedElementText ==
  ScrapedOk =>
    /\ Len(news_df.rows) = Cardinality(NonEmptyTitles(page.titles))
    /\ \A i \in 1..Len(news_df.rows) :
         news_df.rows[i].subtitulo =
           IF i <= Len(page.subtitles) THEN Str(Strip(page.subtitles[i])) ELSE Str(<<>>)

\* first headline dropped, so row 1 is headline 2 yet takes subtitle 1, which
\* is padded; subtitle 2 has no row
C2_Witness ==
  /\ ScrapedOk
  /\ Len(page.titles) = 2
  /\ Strip(page.titles[1]) = <<>>
  /\ Len(news_df.rows) = 1
  /\ Len(page.subtitles) = 2
  /\ page.subtitles[1] = <<" ", "A", " ">>
  /\ news_df.rows[1].subtitulo = Str(<<"A">>)

\* C3: with an empty or absent table save_data writes nothing, leaves the
\* file as it was, prints the "nothing to save" message and returns.
C3_NothingToSave ==
  [][(ex_pc = "printed" /\ ex_pc' # ex_pc /\ (news_df.none \/ Empty(news_df)))
       => /\ csv' = csv
          /\ ex_out' = ex_out \o <<"no_hay_datos", "completado">>
          /\ ex_pc' = "done"]_vars

\* a run that found no headline ended next to the file of an earlier run
C3_Witness ==
  /\ ex_pc = "done"
  /\ ~news_df.none
  /\ Empty(news_df)
  /\ csv = PriorFile
  /\ ex_out[Len(ex_out) - 1] = "no_hay_datos"

\* C4: a status other than 200 or an exception in the fetch or the parse makes
\* the scrape print a failure message and return None, and the run still goes
\* through print_news and save_data to its end.
C4_FailureReturnsNone ==
  /\ ex_pc \in {"idle", "scraped", "printed", "done"}
  /\ (ex_pc = "scraped" /\ ~(page.outcome = "ok" /\ page.status = 200))
       => /\ news_df = None
          /\ ex_out \in { <<"iniciando", "error_codigo">>,
                          <<"iniciando", "error_scraping">> }
  /\ (ex_pc = "scraped" /\ page.status # 200 /\ page.outcome = "ok")
       => ex_out = <<"iniciando", "error_codigo">>
  /\ (ex_pc = "done" /\ news_df.none)
       => \E m \in {"error_codigo", "error_scraping"} :
            ex_out = <<"iniciando", m, "no_noticias", "no_hay_datos", "completado">>

\* a 404 page that carries headline markup was turned down
C4_Witness ==
  /\ ex_pc = "scraped"
  /\ page.status = 404
  /\ NonEmptyTitles(page.titles) # {}
  /\ news_df = None

\* the cells of one record, in the order of the columns
RecordCells(r) == <<r.titulo, r.subtitulo, r.fecha_extraccion>>

\* C5: every change of the CSV file is a write of save_data that leaves the
\* header titulo, subtitulo, fecha_extraccion and exactly one row per
\* record of the run that writes, none of what the file held before.
C5_WriteOverwrites ==
  [][/\ csv' # csv
        => /\ ex_pc = "printed"
           /\ csv'.state = "ok"
           /\ csv'.cols = <<"titulo", "subtitulo", "fecha_extraccion">>
           /\ Len(csv'.rows) = Len(news_df.rows)
           /\ \A i \in 1..Len(news_df.rows) : csv'.rows[i] = RecordCells(news_df.rows[i])
     /\ (ex_pc = "printed" /\ ex_pc' = "done" /\ ~news_df.none /\ news_df.rows # <<>>)
        => csv'.writes = csv.writes + 1]_vars

\* the file was written twice and holds the single row of the later run
C5_Witness ==
  /\ ex_pc = "done"
  /\ csv.writes = 2
  /\ Len(csv.rows) = 1
  /\ Len(news_df.rows) = 1
  /\ csv.rows[1] = RecordCells(news_df.rows[1])

(* ------------------------- properties: pipeline ------------------------ *)
\* a rendered date and the timestamp parsed from it name the same instant
SameInstant(a, b) ==
  /\ a.kind \in {"datestr", "datetime"}
  /\ b.kind \in {"datestr", "datetime"}
  /\ a.t = b.t

\* C6: a table written by save_data and then loaded by the analyzer comes
\* back with the same title, subtitle and timestamp in every row, rows with an
\* empty subtitle included.
C6_RoundTrip ==
  (/\ ex_pc = "done"
   /\ ~news_df.none
   /\ news_df.rows # <<>>
   /\ an_pc \notin {"idle", "load"})
    => /\ an_pc # "aborted"
       /\ Len(df.rows) = Len(news_df.rows)
       /\ \A i \in 1..Len(news_df.rows) :
            /\ df.rows[i]["titulo"] = news_df.rows[i].titulo
            /\ df.rows[i]["subtitulo"] = news_df.rows[i].subtitulo
            /\ SameInstant(df.rows[i]["fecha_extraccion"], news_df.rows[i].fecha_extraccion)

(* ------------------------- properties: analyzer ------------------------ *)
\* the file is missing, unreadable, or lacks the titulo column
CsvUnusable ==
  \/ csv.state \in {"missing", "garbled"}
  \/ ~\E j \in 1..Len(csv.cols) : csv.cols[j] = "titulo"

\* C7: when the CSV is missing or malformed the load reports the error and
\* the run ends there: no chart function is called, no artifact and no report
\* is written, and nothing more happens in that run.
C7_LoadFailureEndsRun ==
  [][/\ (an_pc = "load" /\ CsvUnusable /\ an_pc' # an_pc)
        => /\ an_pc' = "aborted"
           /\ an_out' = Append(an_out, "error_cargar")
           /\ calls' = <<>>
           /\ files' = files
           /\ pdf' = pdf
     /\ an_pc = "aborted"
        => /\ calls = <<>>
           /\ files' = files
           /\ pdf' = pdf
           /\ (an_pc' = "aborted" /\ calls' = <<>> /\ an_out' = an_out)
                \/ (an_pc' = "load" /\ an_runs' = an_runs + 1)]_vars

\* the extended analyzer gave up on an unreadable file, next to the charts
\* and the report of an earlier run
C7_Witness ==
  /\ an_pc = "aborted"
  /\ an_variant = "ext"
  /\ csv.state = "garbled"
  /\ calls = <<>>
  /\ files = PriorArtifacts
  /\ pdf = PriorPdf

\* the chart functions __main__ calls, in order
ChartFunctions(variant) ==
  IF variant = "base"
  THEN <<"generar_wordcloud", "longitud_titulos", "top_palabras", "analisis_temporal">>
  ELSE <<"generar_wordcloud", "longitud_titulos", "top_palabras",
         "analizar_sentimiento", "extraer_entidades">>

CalledFunctions == [i \in 1..Len(calls) |-> calls[i].fn]

IsPrefix(a, b) == Len(a) <= Len(b) /\ a = SubSeq(b, 1, Len(a))

Printed(out, m) == \E i \in 1..Len(out) : out[i] = m

\* the steps of a run that has started
AnalyzerStep ==
  \/ cargar_datos
  \/ generar_wordcloud
  \/ longitud_titulos
  \/ top_palabras
  \/ analisis_temporal
  \/ analizar_sentimiento
  \/ extraer_entidades
  \/ generar_reporte

\* C8: once the table is loaded no failure inside a chart function ends the
\* run: the next step is always possible, the functions are called in order
\* whatever failed before, every function that did not fail has its artifact
\* on disk, and the run reaches the report (extended) and the final banner.
C8_FailuresDoNotAbort ==
  /\ an_pc = "aborted" => calls = <<>>
  /\ an_pc \notin {"idle", "done", "aborted"} => ENABLED AnalyzerStep
  /\ an_pc \notin {"idle", "load", "aborted"}
       => IsPrefix(CalledFunctions, ChartFunctions(an_variant))
  /\ an_pc = "done"
       => /\ CalledFunctions = ChartFunctions(an_variant)
          /\ Printed(an_out, "completado")
          /\ an_variant = "ext"
               => Printed(an_out, "reporte_generado") \/ Printed(an_out, "error_pdf")
          /\ \A i \in 1..Len(calls) :
               (~calls[i].failed /\ ~calls[i].skipped)
                 => /\ calls[i].wrote \subseteq files
                    /\ calls[i].fn # "extraer_entidades" => Cardinality(calls[i].wrote) = 1

\* an extended run without the spaCy model: the word cloud and the entities
\* failed, the sentiment chart was still produced and the run ended
C8_Witness ==
  /\ an_pc = "done"
  /\ an_variant = "ext"
  /\ ~nlp
  /\ calls[1].failed
  /\ ~calls[4].failed
  /\ calls[4].wrote # {}
  /\ calls[4].wrote \subseteq files
  /\ calls[5].failed

\* C9 as stated: every chart function, in both variants, returns one artifact
\* path when it succeeds and None when it fails.
C9_OnePathOrNone ==
  \A i \in 1..Len(calls) :
    ~calls[i].skipped
      => /\ calls[i].ret.shape = "scalar"
         /\ calls[i].failed => calls[i].ret.items[1] = NoPath
         /\ ~calls[i].failed => calls[i].ret.items[1] \in calls[i].wrote

\* C9 amended: in the extended variant generar_wordcloud,
\* analizar_longitud_titulos, top_palabras and analizar_sentimiento return the
\* one path they saved on success and None on failure; extraer_entidades
\* returns a pair, each member a saved path or None, both None on failure; in
\* the base variant every function returns None, saving one file on success.
C9_ReturnsByVariant ==
  \A i \in 1..Len(calls) :
    LET c == calls[i]
    IN IF an_variant = "base"
       THEN /\ c.ret = Scalar(NoPath)
            /\ (~c.failed /\ ~c.skipped) => Cardinality(c.wrote) = 1
            /\ (c.failed \/ c.skipped) => c.wrote = {}
       ELSE IF c.fn = "extraer_entidades"
       THEN /\ c.ret.shape = "tuple"
            /\ Len(c.ret.items) = 2
            /\ c.failed => c.ret = Tuple(NoPath, NoPath)
            /\ ~c.failed => { c.ret.items[1], c.ret.items[2] } \ {NoPath} = c.wrote
            /\ c.ret.items[1] # NoPath => c.ret.items[1].kind = "personas"
            /\ c.ret.items[2] # NoPath => c.ret.items[2].kind = "lugares"
       ELSE /\ c.ret.shape = "scalar"
            /\ c.failed => (c.ret.items[1] = NoPath /\ c.wrote = {})
            /\ ~c.failed => (c.ret.items[1] # NoPath /\ c.wrote = {c.ret.items[1]})

\* an extended run: the word cloud failed and returned None, the length chart
\* returned its path, the entities returned a pair of two paths
C9_Witness ==
  /\ an_pc = "done"
  /\ an_variant = "ext"
  /\ calls[1].failed
  /\ calls[1].ret = Scalar(NoPath)
  /\ ~calls[2].failed
  /\ calls[2].ret.items[1].kind = "longitud_titulos"
  /\ calls[5].ret.shape = "tuple"
  /\ calls[5].ret.items[1] # NoPath
  /\ calls[5].ret.items[2] # NoPath

\* the file has the titulo column and no fecha_extraccion column
CsvWithoutFecha ==
  /\ csv.state = "ok"
  /\ \E j \in 1..Len(csv.cols) : csv.cols[j] = "titulo"
  /\ ~\E j \in 1..Len(csv.cols) : csv.cols[j] = "fecha_extraccion"

\* C10: on a CSV with titulo and without fecha_extraccion the base analyzer
\* loads, calls the word cloud, the length histogram and the top words, each
\* of which leaves its artifact unless it fails on its own, and only the
\* temporal chart is skipped, with a warning.
C10_MissingFechaSkipsTemporalOnly ==
  (an_variant = "base" /\ CsvWithoutFecha /\ an_pc # "idle")
    => /\ an_pc # "aborted"
       /\ ~Printed(an_out, "error_cargar")
       /\ an_pc # "load" => Printed(an_out, "datos_cargados")
       /\ \A i \in 1..Len(calls) :
            /\ calls[i].skipped <=> calls[i].fn = "analisis_temporal"
            /\ (~calls[i].failed /\ ~calls[i].skipped)
                 => (Cardinality(calls[i].wrote) = 1 /\ calls[i].wrote \subseteq files)
       /\ an_pc = "done"
            => /\ CalledFunctions = ChartFunctions("base")
               /\ calls[4].wrote = {}
               /\ ~calls[4].failed
               /\ Printed(an_out, "warn_no_temporal")
               /\ ~Printed(an_out, "error_analisis_temporal")
               /\ Printed(an_out, "completado")

\* a base run on such a file ended with its three other charts on disk
C10_Witness ==
  /\ an_variant = "base"
  /\ CsvWithoutFecha
  /\ an_pc = "done"
  /\ \A i \in 1..3 : ~calls[i].failed /\ calls[i].wrote # {} /\ calls[i].wrote \subseteq files
  /\ calls[4].skipped

(* ------------------------- properties: top words ----------------------- *)
\* top_palabras has been called in this run
TopCalled == \E i \in 1..Len(calls) : calls[i].fn = "top_palabras"

\* the tokens of the corpus and how often each occurs
Tokens == { FindWords(text)[i] : i \in 1..Len(FindWords(text)) }
Frequency(w) == Cardinality({ i \in 1..Len(FindWords(text)) : FindWords(text)[i] = w })

\* the words top_palabras selected
Selected == { word_counts[i][1] : i \in 1..Len(word_counts) }

\* C11: whatever the corpus and n, no selected token is a word of the
\* variant's stopword list and none has three characters or fewer, however
\* often such words occur.
C11_NoStopwordNoShortToken ==
  TopCalled =>
    \A w \in Selected :
      /\ w \in Tokens
      /\ w \notin Stopwords(an_variant)
      /\ Len(w) > 3

\* the extended variant was asked for two words, met "para" twice and "casa"
\* once, and selected "casa" alone
C11_Witness ==
  /\ TopCalled
  /\ an_variant = "ext"
  /\ top_n = 2
  /\ Frequency(<<"p", "a", "r", "a">>) = 2
  /\ Frequency(<<"c", "a", "s", "a">>) = 1
  /\ word_counts = << <<(<<"c", "a", "s", "a">>), 1>> >>

\* the tokens that pass the filter of the running variant
EligibleTokens == { w \in Tokens : Eligible(an_variant, w) }

\* C18: top_palabras selects min(n, number of eligible tokens) distinct
\* eligible tokens, each with its frequency, listed in non-increasing order of
\* frequency, and no eligible token left out is more frequent than one that
\* is included.
C18_TopNByFrequency ==
  TopCalled =>
    /\ Len(word_counts) =
         IF top_n < Cardinality(EligibleTokens) THEN top_n ELSE Cardinality(EligibleTokens)
    /\ \A i \in 1..Len(word_counts) :
         /\ word_counts[i][1] \in EligibleTokens
         /\ word_counts[i][2] = Frequency(word_counts[i][1])
    /\ \A i \in 1..Len(word_counts), j \in 1..Len(word_counts) :
         i < j => /\ word_counts[i][1] # word_counts[j][1]
                  /\ word_counts[i][2] >= word_counts[j][2]
    /\ \A w \in EligibleTokens \ Selected :
         \A i \in 1..Len(word_counts) : Frequency(w) <= word_counts[i][2]

\* asked for one word of "gato casa casa", top_palabras selected "casa", the
\* later but more frequent token, and left "gato" out
C18_Witness ==
  /\ TopCalled
  /\ top_n = 1
  /\ FindWords(text) = << <<"g", "a", "t", "o">>, <<"c", "a", "s", "a">>, <<"c", "a", "s", "a">> >>
  /\ word_counts = << <<(<<"c", "a", "s", "a">>), 2>> >>

\* C20: on every corpus the filters of the two variants accept the same
\* tokens, so the list the running variant computed is the list the other
\* variant computes from the same corpus.
C20_SameFilterInBothVariants ==
  TopCalled =>
    /\ \A w \in Tokens : Eligible("base", w) <=> Eligible("ext", w)
    /\ word_counts = TopPalabras("base", text, top_n)
    /\ word_counts = TopPalabras("ext", text, top_n)

(* ------------------------- properties: report -------------------------- *)
\* what the chart functions returned to __main__, call after call, None
\* left out
ReturnedPaths ==
  SelectSeq(calls[1].ret.items \o calls[2].ret.items \o calls[3].ret.items
              \o calls[4].ret.items \o calls[5].ret.items,
            LAMBDA g : g # NoPath)

\* the place of an artifact kind in the order of production
KindRank(k) ==
  CASE k = "wordcloud" -> 1
    [] k = "longitud_titulos" -> 2
    [] k = "top_palabras" -> 3
    [] k = "sentimiento" -> 4
    [] k = "personas" -> 5
    [] k = "lugares" -> 6

\* C12: a report that generar_reporte writes is one cover (generation time,
\* record count equal to the rows of the loaded table) followed by exactly one
\* page per artifact path the functions returned, None filtered out, in the
\* order of production; each page is a file on disk, every function that
\* succeeded has its artifacts in it, and the document replaces whatever
\* reporte_analisis.pdf held before.
C12_ReportPages ==
  [][(an_pc = "reporte" /\ an_pc' = "done" /\ Printed(an_out', "reporte_generado"))
       => /\ pdf'.state = "written"
          /\ pdf'.t = clock
          /\ pdf'.count = Len(csv.rows)
          /\ pdf'.pages = ReturnedPaths
          /\ \A i \in 1..Len(pdf'.pages) :
               /\ pdf'.pages[i] \in files
               /\ \A j \in 1..Len(pdf'.pages) :
                    i < j => KindRank(pdf'.pages[i].kind) < KindRank(pdf'.pages[j].kind)
          /\ \A i \in 1..Len(calls) :
               ~calls[i].failed
                 => calls[i].wrote \subseteq { pdf'.pages[j] : j \in 1..Len(pdf'.pages) }]_vars

\* next to the charts and the four-page report of an earlier run, a run
\* whose word cloud failed wrote a report of its own five charts
C12_Witness ==
  /\ an_pc = "done"
  /\ an_variant = "ext"
  /\ PriorArtifacts \subseteq files
  /\ calls[1].failed
  /\ Printed(an_out, "reporte_generado")
  /\ pdf.t = 1
  /\ Len(pdf.pages) = 5
  /\ pdf.pages[5].kind = "lugares"
  /\ \A i \in 1..5 : pdf.pages[i] \notin PriorArtifacts

(* ------------------------- properties: artifacts ----------------------- *)
\* C13: no call of a chart function writes a file that was already in the
\* output directory: the second in the file name keeps the names of different
\* runs apart.
C13_NoArtifactOverwritten ==
  [][(Len(calls') = Len(calls) + 1)
       => calls'[Len(calls')].wrote \cap files = {}]_vars

(* ------------------------- properties: shared file --------------------- *)
\* two files hold the same header and rows
SameContents(f, g) == f.state = g.state /\ f.cols = g.cols /\ f.rows = g.rows

\* C14: a load that happens while the extractor has the file open for
\* writing reads either the complete contents the file had before the write
\* or the complete contents the write is leaving.
C14_NoPartialRead ==
  [][(an_pc = "load" /\ an_pc' # an_pc /\ handle.open)
       => \/ SameContents(csv, handle.old)
          \/ SameContents(csv, to_csv(handle.old, news_df))]_vars

\* the columns the analyzers derive
DerivedColumns(variant) ==
  IF variant = "base" THEN {"titulo_limpio", "longitud", "hora", "dia"}
  ELSE {"titulo_limpio", "longitud", "sentimiento"}

\* C15: no step of an analyzer run, whichever variant and however the run
\* ends, changes the CSV file; at the end of a run the derived columns and the
\* parsed timestamps are in the table in memory and the file has none of them.
C15_AnalyzerNeverWritesCsv ==
  [][/\ csv' = csv
     /\ (an_pc' = "done" /\ an_pc # "done")
          => /\ \A c \in DerivedColumns(an_variant) :
                  /\ ~\E j \in 1..Len(csv'.cols) : csv'.cols[j] = c
                  /\ (c \notin {"hora", "dia"} \/ HasColumn(df', "fecha_extraccion"))
                       => HasColumn(df', c)
             /\ \A i \in 1..Len(csv'.rows), j \in 1..Len(csv'.cols) :
                  csv'.rows[i][j].kind # "datetime"]_vars

\* an extended run ended with the sentiment column and parsed timestamps in
\* memory, next to a file that still holds the three columns and the
\* rendered dates of the extractor
C15_Witness ==
  /\ an_pc = "done"
  /\ an_variant = "ext"
  /\ csv = PriorFile
  /\ HasColumn(df, "sentimiento")
  /\ HasColumn(df, "titulo_limpio")
  /\ df.rows[1]["fecha_extraccion"].kind = "datetime"
  /\ csv.rows[1][3].kind = "datestr"

\* C19: the closing banner names the PDF report as generated only in runs in
\* which generar_reporte wrote the report.
C19_AnnouncedOnlyIfWritten ==
  (an_variant = "ext" /\ Printed(an_out, "reporte_anunciado"))
    => /\ Printed(an_out, "reporte_generado")
       /\ ~Printed(an_out, "error_pdf")
       /\ pdf.state = "written"

(* ------------------------- properties: run order ----------------------- *)
\* message a is printed, and before message b if that is printed too
PrintedBefore(out, a, b) ==
  /\ Printed(out, a)
  /\ \A i \in 1..Len(out), j \in 1..Len(out) : (out[i] = a /\ out[j] = b) => i < j

\* C16 as stated: when the records are printed to the console the CSV
\* already holds them and the write has been reported.
C16_PersistedBeforePrinted ==
  [][(ex_pc = "scraped" /\ ex_pc' = "printed" /\ HasData(news_df))
       => /\ csv.state = "ok"
          /\ csv.rows = CsvRows(news_df)
          /\ Printed(ex_out, "guardado")]_vars

\* C16 amended: the steps of a run occur in the order fetch, parse,
\* associate, emit rows, print to console, persist to CSV: the file changes
\* only after the records have been printed, and the message of the write
\* comes after them on the console.
C16_PrintedBeforePersisted ==
  [][/\ csv' # csv
        => /\ ex_pc = "printed"
           /\ ex_out[1] = "iniciando"
           /\ ex_out[Len(ex_out)] = "noticias"
           /\ PrintedBefore(ex_out', "noticias", "guardado")
           /\ PrintedBefore(ex_out', "guardado", "completado")
     /\ ex_pc' = "printed" => ex_pc = "scraped" /\ csv' = csv
     /\ (ex_pc' = "done" /\ ex_pc # "done") => ex_pc = "printed"]_vars

\* a run has printed its one record and the file still holds the two rows
\* of an earlier run
C16_Witness ==
  /\ ex_pc = "printed"
  /\ Len(news_df.rows) = 1
  /\ ex_out = <<"iniciando", "noticias">>
  /\ csv.writes = 1
  /\ Len(csv.rows) = 2
  /\ csv.rows # CsvRows(news_df)

(* ------------------------- properties: any order ----------------------- *)
\* the artifact kinds a chart function saves
KindsOf(fn) ==
  CASE fn = "generar_wordcloud" -> {"wordcloud"}
    [] fn = "longitud_titulos" -> {"longitud_titulos"}
    [] fn = "top_palabras" -> {"top_palabras"}
    [] fn = "analisis_temporal" -> {"distribucion_horas"}
    [] fn = "analizar_sentimiento" -> {"sentimiento"}
    [] fn = "extraer_entidades" -> {"personas", "lugares"}

\* C17: in whatever order the chart functions of a variant are called, each
\* is called once, saves artifacts of its own kinds only (exactly one unless
\* it fails, is skipped or is extraer_entidades), and computes what it
\* computes from the loaded table alone: the columns of the loaded table are
\* untouched, longitud is the length of each title, hora and dia come from
\* the parsed timestamps, and the word counts are those of the loaded corpus.
C17_OrderInsensitive ==
  (an_pc \in {"reporte", "done"})
    => LET loaded == LoadedTable(csv)
           fns == ChartFunctions(an_variant)
       IN /\ Len(calls) = Len(fns)
          /\ { calls[i].fn : i \in 1..Len(calls) } = { fns[i] : i \in 1..Len(fns) }
          /\ \A i \in 1..Len(calls) :
               LET c == calls[i]
               IN /\ { f.kind : f \in c.wrote } \subseteq KindsOf(c.fn)
                  /\ c.wrote \subseteq files
                  /\ c.skipped <=> (c.fn = "analisis_temporal"
                                      /\ ~HasColumn(loaded, "fecha_extraccion"))
                  /\ (c.fn # "extraer_entidades")
                       => Cardinality(c.wrote) = IF c.failed \/ c.skipped THEN 0 ELSE 1
          /\ Len(df.rows) = Len(loaded.rows)
          /\ \A i \in 1..Len(df.rows) :
               /\ \A c \in DOMAIN loaded.rows[i] : df.rows[i][c] = loaded.rows[i][c]
               /\ df.rows[i]["longitud"] = Num(Len(loaded.rows[i]["titulo"].text))
               /\ (an_variant = "ext") => df.rows[i]["sentimiento"].kind = "num"
               /\ (an_variant = "base" /\ HasColumn(loaded, "fecha_extraccion"))
                    => /\ df.rows[i]["hora"] = Hours(loaded)[i]
                       /\ df.rows[i]["dia"] = Days(loaded)[i]
          /\ word_counts = TopPalabras(an_variant, Corpus(loaded), top_n)

\* an extended run called the entities first and the length chart last,
\* after the sentiment chart, and every function left its artifact
C17_Witness ==
  /\ an_pc = "done"
  /\ an_variant = "ext"
  /\ csv = HeadlineFile
  /\ an_plan = <<"entidades", "sentimiento", "top", "wordcloud", "longitud">>
  /\ \A i \in 1..5 : ~calls[i].failed /\ calls[i].wrote # {}
  /\ calls[5].fn = "longitud_titulos"
  /\ df.rows[1]["longitud"] = Num(9)
  /\ word_counts = << <<(<<"c", "a", "s", "a">>), 2>>, <<(<<"g", "a", "t", "o">>), 1>> >>
====
